---- MODULE Spec2Model ----
(***************************************************************************)
(* Model of runportal.py: the MousePortal application (start-up, key       *)
(* events, the per-frame update task), the Corridor's four segment lists   *)
(* and the DataLogger.  Lengths, speeds and clock deltas are integers      *)
(* (fixed-point units of the configured values).                           *)
(***************************************************************************)
EXTENDS Integers, Sequences, FiniteSets, TLC

\* ---- bounds of the exploration ----
MaxLength == 2
MaxSegments == 3
MaxSpeed == 1
MaxDt == 1
MaxTicks == 3
ScenarioTicks == 37
MaxLines == 4
MaxOpens == 3
MaxValue == 1

\* ---- program constants ----
DefaultSpeedScaling == 5

Faces == {"left", "right", "ceiling", "floor"}
Keys == {"forward", "backward"}

\* config files: a JSON object is a function from field names to values;
\* speed_scaling is optional.
NoConfig == [none |-> TRUE]
BaseConfigs ==
    [segment_length : 1..MaxLength, num_segments : 1..MaxSegments]
SpeedConfigs ==
    [segment_length : 1..MaxLength, num_segments : 1..MaxSegments,
     speed_scaling : 1..MaxSpeed]
ScenarioCfg == [segment_length |-> 10, num_segments |-> 5, speed_scaling |-> 1]
ConfigFiles ==
    {[status |-> "missing", content |-> NoConfig],
     [status |-> "malformed", content |-> NoConfig]}
    \cup {[status |-> "ok", content |-> c] :
             c \in BaseConfigs \cup SpeedConfigs \cup {ScenarioCfg}}

VARIABLES
    pc,                     \* position of the process in MousePortal.__init__ / main loop
    cfg_file,               \* what is on disk at the config path
    cfg,                    \* self.cfg
    exit_code,              \* process exit status, -1 while alive
    window_open,            \* ShowBase.__init__ has run
    keys_bound,             \* the four accept() bindings exist
    task_added,             \* updateTask is registered
    key_map,                \* self.key_map
    player_position,        \* self.player_position
    player_velocity,        \* self.player_velocity
    speed_scaling,          \* self.speed_scaling
    camera_y,               \* Y of self.camera
    segments,               \* Corridor.<face>_segments: face -> list of panels
    distance_since_recycle, \* self.distance_since_recycle
    dt,                     \* last value read from globalClock.getDt()
    now,                    \* time.time()
    file_exists,            \* os.path.isfile(data_logging_file)
    file,                   \* lines of the data logging file
    logger_open,            \* DataLogger.file is open
    opens,                  \* calls of DataLogger.__init__ on the target
    recycles,               \* calls of Corridor.recycle_segment since start-up
    ticks,                  \* calls of MousePortal.update since start-up
    forward_total           \* sum of the positive move_distance values

vars == <<pc, cfg_file, cfg, exit_code, window_open, keys_bound, task_added,
          key_map, player_position, player_velocity, speed_scaling, camera_y,
          segments, distance_since_recycle, dt, now, file_exists, file,
          logger_open, opens, recycles, ticks, forward_total>>

portalVars == <<pc, cfg_file, cfg, exit_code, window_open, keys_bound,
                task_added, key_map, player_position, player_velocity,
                speed_scaling, camera_y, segments, distance_since_recycle,
                dt, recycles, ticks, forward_total>>

\* ---- DataLogger ----
HeaderLine == [kind |-> "header", timestamp |-> 0, position |-> 0, velocity |-> 0]
DataLine(t, p, v) == [kind |-> "data", timestamp |-> t, position |-> p, velocity |-> v]

\* variant of DataLogger_init that writes the header on every open
DataLogger_init_always(exists, lines) ==
    Append(lines, HeaderLine)
\* DataLogger.__init__: open in append mode, header only if the file is new.
DataLogger_init(exists, lines) ==
    IF exists THEN lines ELSE Append(lines, HeaderLine)

\* DataLogger.log: one row, then flush.
DataLogger_log(lines, t, p, v) ==
    Append(lines, DataLine(t, p, v))

\* ---- Corridor ----
Panel(i, y) == [id |-> i, y |-> y]

\* Corridor.build_segments: panel i of every face at i * segment_length.
build_segments(n, len) ==
    [f \in Faces |-> [i \in 1..n |-> Panel(i - 1, (i - 1) * len)]]

Recycled(seq, new_y) ==
    Append(Tail(seq), [seq[1] EXCEPT !.y = new_y])

\* variants of recycle_segment: the popped panel keeps its position; the
\* floor is left out; new_y is taken from the front panel
recycle_segment_nomove(segs, len) ==
    [f \in Faces |-> Append(Tail(segs[f]), segs[f][1])]
recycle_segment_skipfloor(segs, len) ==
    LET new_y == segs["left"][Len(segs["left"])].y + len
    IN  [f \in Faces |->
            IF f = "floor" THEN segs[f] ELSE Recycled(segs[f], new_y)]
recycle_segment_front(segs, len) ==
    [f \in Faces |-> Recycled(segs[f], segs[f][1].y + len)]
\* Corridor.recycle_segment: new_y from the LAST left panel; each face pops
\* its first panel, moves it to new_y and appends it.
recycle_segment(segs, len) ==
    LET new_y == segs["left"][Len(segs["left"])].y + len
    IN  [f \in Faces |-> Recycled(segs[f], new_y)]

\* ---- MousePortal.update, the pure parts ----
\* variant of velocity in which backward wins
velocity_backward_first(km, speed) ==
    IF km["backward"] THEN -speed
    ELSE IF km["forward"] THEN speed
    ELSE 0
\* the velocity policy (lines 292-297)
velocity(km, speed) ==
    IF km["forward"] THEN speed
    ELSE IF km["backward"] THEN -speed
    ELSE 0

\* variants of recycle_loop: an if in place of the while; > in place of >=
recycle_once(acc, segs, n, len) ==
    IF acc >= len
    THEN [acc |-> acc - len, segs |-> recycle_segment(segs, len), n |-> n + 1]
    ELSE [acc |-> acc, segs |-> segs, n |-> n]
RECURSIVE recycle_loop_strict(_, _, _, _)
recycle_loop_strict(acc, segs, n, len) ==
    IF acc > len
    THEN recycle_loop_strict(acc - len, recycle_segment(segs, len), n + 1, len)
    ELSE [acc |-> acc, segs |-> segs, n |-> n]
\* the while loop of lines 307-309
RECURSIVE recycle_loop(_, _, _, _)
recycle_loop(acc, segs, n, len) ==
    IF acc >= len
    THEN recycle_loop(acc - len, recycle_segment(segs, len), n + 1, len)
    ELSE [acc |-> acc, segs |-> segs, n |-> n]

\* variant of advance that accumulates backward motion too
advance_any_motion(move_distance, acc, segs, n, len) ==
    IF move_distance # 0
    THEN recycle_loop(acc + move_distance, segs, n, len)
    ELSE [acc |-> acc, segs |-> segs, n |-> n]
\* lines 305-309: accumulate and recycle only when moving forward
advance(move_distance, acc, segs, n, len) ==
    IF move_distance > 0
    THEN recycle_loop(acc + move_distance, segs, n, len)
    ELSE [acc |-> acc, segs |-> segs, n |-> n]

\* dict.get(key, default)
Get(d, key, default) == IF key \in DOMAIN d THEN d[key] ELSE default

\* ---- initial state: the process has not started ----
PortalInit ==
    /\ pc = "start"
    /\ cfg = NoConfig
    /\ exit_code = -1
    /\ window_open = FALSE
    /\ keys_bound = FALSE
    /\ task_added = FALSE
    /\ key_map = [k \in Keys |-> FALSE]
    /\ player_position = 0
    /\ player_velocity = 0
    /\ speed_scaling = 0
    /\ camera_y = 0
    /\ segments = [f \in Faces |-> <<>>]
    /\ distance_since_recycle = 0
    /\ dt = 0
    /\ recycles = 0
    /\ ticks = 0
    /\ forward_total = 0

FileInit ==
    /\ now = 0
    /\ file_exists = FALSE
    /\ file = <<>>
    /\ logger_open = FALSE
    /\ opens = 0

Init ==
    /\ cfg_file \in ConfigFiles
    /\ PortalInit
    /\ FileInit

\* ---- MousePortal.__init__ ----
\* line 220
ShowBase_init ==
    /\ pc = "start"
    /\ pc' = "showbase"
    /\ window_open' = TRUE
    /\ UNCHANGED <<cfg_file, cfg, exit_code, keys_bound, task_added, key_map,
                   player_position, player_velocity, speed_scaling, camera_y,
                   segments, distance_since_recycle, dt, now, file_exists,
                   file, logger_open, opens, recycles, ticks, forward_total>>

\* lines 225-226 with load_config: a missing file makes open() raise, a
\* malformed one makes load_config call sys.exit(1)
init_load_config ==
    /\ pc = "showbase"
    /\ IF cfg_file.status = "ok"
       THEN /\ cfg' = cfg_file.content
            /\ pc' = "loaded"
            /\ UNCHANGED exit_code
       ELSE /\ pc' = "fatal"
            /\ exit_code' = 1
            /\ UNCHANGED cfg
    /\ UNCHANGED <<cfg_file, window_open, keys_bound, task_added, key_map,
                   player_position, player_velocity, speed_scaling, camera_y,
                   segments, distance_since_recycle, dt, now, file_exists,
                   file, logger_open, opens, recycles, ticks, forward_total>>

\* lines 228-265
init_rest ==
    /\ pc = "loaded"
    /\ player_position' = 0
    /\ player_velocity' = 0
    /\ speed_scaling' = Get(cfg, "speed_scaling", DefaultSpeedScaling)
    /\ camera_y' = 0
    /\ key_map' = [k \in Keys |-> FALSE]
    /\ keys_bound' = TRUE
    /\ segments' = build_segments(cfg["num_segments"], cfg["segment_length"])
    /\ distance_since_recycle' = 0
    /\ file' = DataLogger_init(file_exists, file)
    /\ file_exists' = TRUE
    /\ logger_open' = TRUE
    /\ opens' = opens + 1
    /\ task_added' = TRUE
    /\ pc' = "running"
    /\ UNCHANGED <<cfg_file, cfg, exit_code, window_open, dt, now, recycles,
                   ticks, forward_total>>

\* ---- MousePortal.set_key ----
set_key(key, value) ==
    /\ pc = "running"
    /\ keys_bound
    /\ key_map' = [key_map EXCEPT ![key] = value]
    /\ UNCHANGED <<pc, cfg_file, cfg, exit_code, window_open, keys_bound,
                   task_added, player_position, player_velocity,
                   speed_scaling, camera_y, segments, distance_since_recycle,
                   dt, now, file_exists, file, logger_open, opens, recycles,
                   ticks, forward_total>>

\* ---- MousePortal.update, one frame whose clock delta is d ----
update(d) ==
    /\ pc = "running"
    /\ task_added
    /\ LET v == velocity(key_map, speed_scaling)
           move_distance == v * d
           r == advance(move_distance, distance_since_recycle, segments,
                        0, cfg["segment_length"])
       IN  /\ dt' = d
           /\ player_velocity' = v
           /\ player_position' = player_position + v * d
           /\ camera_y' = player_position + v * d
           /\ distance_since_recycle' = r.acc
           /\ segments' = r.segs
           /\ recycles' = recycles + r.n
           /\ forward_total' =
                  forward_total + (IF move_distance > 0 THEN move_distance ELSE 0)
           /\ now' = now + 1
           /\ file' = DataLogger_log(file, now + 1, player_position + v * d, v)
    /\ ticks' = ticks + 1
    /\ UNCHANGED <<pc, cfg_file, cfg, exit_code, window_open, keys_bound,
                   task_added, key_map, speed_scaling, file_exists,
                   logger_open, opens>>

\* ---- the environment: key events and frames ----
IsScenario == cfg_file.content = ScenarioCfg

\* any key event, any clock delta, for the small configurations
KeyEvent ==
    /\ ~IsScenario
    /\ \E key \in Keys, value \in BOOLEAN : set_key(key, value)

Frame ==
    /\ ~IsScenario
    /\ ticks < MaxTicks
    /\ \E d \in 0..MaxDt : update(d)

\* the end-to-end run: forward gets pressed, frames of dt = 1
ScenarioKeyEvent ==
    /\ IsScenario
    /\ set_key("forward", TRUE)

ScenarioFrame ==
    /\ IsScenario
    /\ ticks < ScenarioTicks
    /\ update(1)

Next ==
    \/ ShowBase_init
    \/ init_load_config
    \/ init_rest
    \/ KeyEvent
    \/ Frame
    \/ ScenarioKeyEvent
    \/ ScenarioFrame

Spec == Init /\ [][Next]_vars

\* ---- the DataLogger on its own: open, log, close on one target ----
LoggerInit ==
    /\ cfg_file = [status |-> "missing", content |-> NoConfig]
    /\ PortalInit
    /\ FileInit

\* DataLogger.__init__
LoggerOpen ==
    /\ ~logger_open
    /\ opens < MaxOpens
    /\ file' = DataLogger_init(file_exists, file)
    /\ file_exists' = TRUE
    /\ logger_open' = TRUE
    /\ opens' = opens + 1
    /\ UNCHANGED now
    /\ UNCHANGED portalVars

\* DataLogger.log
LoggerLog ==
    /\ logger_open
    /\ Len(file) < MaxLines
    /\ \E p \in -MaxValue..MaxValue, v \in -MaxValue..MaxValue :
          /\ now' = now + 1
          /\ file' = DataLogger_log(file, now + 1, p, v)
    /\ UNCHANGED <<file_exists, logger_open, opens>>
    /\ UNCHANGED portalVars

\* DataLogger.close
LoggerClose ==
    /\ logger_open
    /\ logger_open' = FALSE
    /\ UNCHANGED <<now, file_exists, file, opens>>
    /\ UNCHANGED portalVars

LoggerNext == LoggerOpen \/ LoggerLog \/ LoggerClose

SpecLogger == LoggerInit /\ [][LoggerNext]_vars

\* ------------------------------------------------------------------------
\* Properties
\* ------------------------------------------------------------------------
SegLen == cfg["segment_length"]
NumSeg == cfg["num_segments"]
Running == pc = "running"
\* the step is one call of update
Tick == ticks' = ticks + 1
\* move_distance of the update call that the step is
MoveDistance == player_velocity' * dt'

\* C1: once the corridor is built, and after any number of recycles, every
\* face holds exactly num_segments panels whose positions, in list order, are
\* m*L, (m+1)*L, ..., (m+num_segments-1)*L for an integer m >= 0.
C1_ContiguousWindow ==
    Running =>
        \A f \in Faces :
            /\ Len(segments[f]) = NumSeg
            /\ segments[f][1].y >= 0
            /\ segments[f][1].y % SegLen = 0
            /\ \A i \in 1..NumSeg :
                   segments[f][i].y =
                       (segments[f][1].y \div SegLen + (i - 1)) * SegLen
C1_Witness ==
    /\ Running
    /\ NumSeg = 3
    /\ recycles = 5
    /\ segments["floor"][1].y = 5 * SegLen
    /\ segments["floor"][3].y = 7 * SegLen

\* C2: the four faces stay in lockstep: each face's list is the built list
\* with the same number of recycles applied, so the panels at one index of
\* the four faces are the same panel number at the same position.
C2_Lockstep ==
    Running =>
        \A f \in Faces :
            segments[f] =
                [i \in 1..NumSeg |->
                    Panel((recycles + i - 1) % NumSeg,
                          (recycles + i - 1) * SegLen)]
C2_Witness ==
    /\ Running
    /\ NumSeg = 2
    /\ recycles = 3
    /\ \A f \in Faces : segments[f][2].y = segments["left"][2].y

\* C3: one update with move_distance d > 0 from accumulator a, 0 <= a < L,
\* fires floor((a + d) / L) recycles and leaves the accumulator (a + d) mod L.
C3_TickRecycles ==
    [][(Tick /\ MoveDistance > 0) =>
         /\ distance_since_recycle >= 0
         /\ distance_since_recycle < SegLen
         /\ recycles' - recycles =
                (distance_since_recycle + MoveDistance) \div SegLen
         /\ distance_since_recycle' =
                (distance_since_recycle + MoveDistance) % SegLen]_vars
\* a = 0, L = 2, d = 5 in one tick: 2 recycles, accumulator 1
C3_Witness ==
    /\ Running
    /\ SegLen = 2
    /\ ticks = 1
    /\ player_velocity * dt = 5
    /\ recycles = 2
    /\ distance_since_recycle = 1

\* C4: the recycles fired since start-up are floor(F / L) and the accumulator
\* is F mod L, F the sum of the positive move distances; with L = 10,
\* 5 segments, speed 1 and forward held for 37 frames of dt = 1 there have
\* been 3 recycles, the accumulator is 7 and the position is 37.
C4_TotalRecycles ==
    Running =>
        /\ recycles = forward_total \div SegLen
        /\ distance_since_recycle = forward_total % SegLen
        /\ (cfg = ScenarioCfg /\ ticks = 37 /\ forward_total = 37) =>
               /\ recycles = 3
               /\ distance_since_recycle = 7
               /\ player_position = 37
C4_Witness ==
    /\ Running
    /\ cfg = ScenarioCfg
    /\ ticks = 37
    /\ forward_total = 37
    /\ recycles = 3

\* C5 as stated: an update with move_distance <= 0 fires no recycle and
\* changes nothing but player_position and player_velocity.
C5_OnlyMotionChanges ==
    [][(Tick /\ MoveDistance <= 0) =>
         UNCHANGED <<recycles, distance_since_recycle, segments, key_map,
                     speed_scaling, cfg, camera_y, file, file_exists,
                     logger_open>>]_vars
\* C5 amended: an update with move_distance <= 0 fires no recycle and leaves
\* the accumulator and the four lists unchanged; besides player_position and
\* player_velocity the camera follows the position and the data file gains
\* the row of this tick.
C5_BackwardFrame ==
    [][(Tick /\ MoveDistance <= 0) =>
         /\ UNCHANGED <<recycles, distance_since_recycle, segments, key_map,
                        speed_scaling, cfg, file_exists, logger_open>>
         /\ player_position' = player_position + MoveDistance
         /\ camera_y' = player_position'
         /\ file' = Append(file, DataLine(now', player_position',
                                          player_velocity'))]_vars
\* a backward tick after forward distance was accumulated
C5_Witness ==
    /\ Running
    /\ player_velocity < 0
    /\ dt > 0
    /\ distance_since_recycle > 0
    /\ recycles > 0
    /\ player_position < forward_total

\* C6: the front panel of every face is at player_position -
\* distance_since_recycle and the camera is inside the covered window.
C6_WindowAtCheckpoint ==
    Running =>
        \A f \in Faces :
            /\ segments[f][1].y = player_position - distance_since_recycle
            /\ segments[f][1].y <= player_position
            /\ player_position < segments[f][1].y + NumSeg * SegLen

\* C7 as stated: one recycle moves the front panel of each face to
\* (position of the front before the recycle) + L at the tail.
C7_FrontPlusLength ==
    [][(Tick /\ recycles' = recycles + 1) =>
         \A f \in Faces :
             /\ Len(segments'[f]) = NumSeg
             /\ segments'[f][NumSeg].id = segments[f][1].id
             /\ segments'[f][NumSeg].y = segments[f][1].y + SegLen
             /\ \A i \in 1..(NumSeg - 1) :
                    segments'[f][i] = segments[f][i + 1]]_vars
\* C7 amended: one recycle removes the front panel of each face, sets its
\* position to (position of the LAST panel before the recycle) + L, which is
\* front + num_segments * L, and appends it; no other panel moves.
C7_LastPlusLength ==
    [][(Tick /\ recycles' = recycles + 1) =>
         \A f \in Faces :
             /\ Len(segments'[f]) = NumSeg
             /\ segments'[f][NumSeg].id = segments[f][1].id
             /\ segments'[f][NumSeg].y = segments[f][NumSeg].y + SegLen
             /\ segments'[f][NumSeg].y = segments[f][1].y + NumSeg * SegLen
             /\ \A i \in 1..(NumSeg - 1) :
                    segments'[f][i] = segments[f][i + 1]]_vars
\* three panels, exactly one recycle applied
C7_Witness ==
    /\ Running
    /\ NumSeg = 3
    /\ recycles = 1
    /\ segments["right"][3] = Panel(0, 3 * SegLen)
    /\ segments["right"][1] = Panel(1, SegLen)

\* C8: after an update the velocity is +speed_scaling when forward is
\* pressed (also with backward pressed), -speed_scaling when only backward
\* is pressed, 0 when neither is.
C8_VelocityPolicy ==
    [][Tick =>
         /\ key_map["forward"] => player_velocity' = speed_scaling
         /\ (~key_map["forward"] /\ key_map["backward"]) =>
                player_velocity' = -speed_scaling
         /\ (~key_map["forward"] /\ ~key_map["backward"]) =>
                player_velocity' = 0]_vars
\* both keys held during a tick that followed a backward tick
C8_Witness ==
    /\ Running
    /\ key_map["forward"]
    /\ key_map["backward"]
    /\ player_velocity = speed_scaling
    /\ player_position < 0
    /\ file[Len(file)].velocity = speed_scaling
    /\ file[Len(file) - 1].velocity = -speed_scaling

\* C9: the target holds one header line, written by the open that created
\* it, followed by one data line per log call in call order.
C9_OneHeader ==
    /\ ~file_exists => (file = <<>> /\ opens = 0)
    /\ file_exists =>
        /\ Len(file) = now + 1
        /\ file[1] = HeaderLine
        /\ \A i \in 2..Len(file) :
               /\ file[i].kind = "data"
               /\ file[i].timestamp = i - 1
\* two rows, a close and a re-open, then one more row
C9_Witness ==
    /\ opens = 2
    /\ logger_open
    /\ Len(file) = 4
    /\ file[1].kind = "header"
    /\ file[4].kind = "data"

\* C10: a process that failed to load its configuration exits non-zero
\* having performed none of the start-up steps, and never runs a tick.
C10_NoPartialStartup ==
    pc = "fatal" =>
        /\ exit_code # 0
        /\ ~window_open
        /\ ~keys_bound
        /\ \A f \in Faces : segments[f] = <<>>
        /\ ~logger_open
        /\ ~file_exists
        /\ ~task_added
        /\ ticks = 0

====
